---- MODULE Spec2Model ----
(***************************************************************************)
(* The bill-splitting engine of rateio-api: calculateSplit                 *)
(* (src/src/services/calculation.ts).  One invocation is modelled as a     *)
(* run of a small state machine: the item loop, the extras loop, the raw   *)
(* (exact fraction) proportional pass and the final sum check are one      *)
(* action each, and the locals of the function are the variables.          *)
(*                                                                         *)
(* Numbers: cents are integers.  The only floating-point values of the     *)
(* code are rawShare = (extraAmount * consumption) / total and its         *)
(* fractional part.  For products below 2^53 the double quotient has the   *)
(* same floor as the exact quotient, so baseShare is modelled by integer   *)
(* division and the fraction by the remainder (extraAmount * consumption)  *)
(* % total over the common denominator total.                              *)
(***************************************************************************)
EXTENDS Integers, Sequences, FiniteSets

\* ------------------------------------------------------------------ bounds
MaxParticipants == 2
MaxItems == 2
MaxShares == 3
MaxExtras == 2
MaxAmountCents == 2
MaxValueCents == 2
MaxFeeCents == 1
MaxSize == 3
\* the bills of three: number of participants of the wide input family
WideParticipants == 3
\* the routes: splits ever created, PIX payments ever created, top-up cents
MaxSplits == 2
MaxPayments == 2
MaxTopupCents == 1
\* requests that overlap: PUT, POST /pay and webhook requests in flight at once
MaxInFlight == 2
\* PUT, POST /pay and webhook requests followed await by await in one run
MaxRequests == 3
\* WalletService.addEntry called on its own: only while the ledger is shorter
MaxServiceEntries == 1

\* -------------------------------------------------------- program constants
\* 1e-9, the "float epsilon safety" of the largest-remainder comparator,
\* kept as its inverse so that the comparison stays in the integers.
EpsilonInverse == 1000000000
\* basis points: 10000 bp = 100 %
BpDenominator == 10000
\* the basis-point rates the model draws from: 0 and 50 %
BpRates == {0, 5000}
\* a column that holds no value (SQL NULL); the model draws no negative amount
Null == -1

ParticipantIds == 1..MaxParticipants
SortOrders == {0, 1}
ItemNames == <<"A", "B", "C", "D">>

VARIABLES
    participantsList,   \* Participant[]: <<[id, sortOrder]>>
    itemsList,          \* Item[]: <<[id, name, amountCents]>>
    shares,             \* ItemShareInput[]: <<[itemId, participantId]>>
    extrasList,         \* Extra[]: <<[type, valueCents, valuePercentBp, allocationMode]>>
    baseFeeCents,
    aiCents,
    pc,                 \* position inside calculateSplit
    itemIdx,            \* index of the next item of the item loop
    extraIdx,           \* index of the next extra of the extras loop
    participantTotals,
    itemsOnlyTotals,
    participantTotalsRawCents,
    itemsOnlyTotalsRawCents,
    itemsTotalCents,
    extrasTotalCents,
    last,               \* the last loop iteration: what it had to distribute
                        \* and the cents it added to each participant
    outcome,            \* what the call returned or threw
    \* the database and the requests of the routes
    splits,             \* table splits: id -> [ownerClerkUserId, status, publicSlug]
    bills,              \* participants, items, item_shares, extras of each split
    splitCosts,         \* table split_costs: splitId -> [baseFeeCents, aiCents, totalCents]
    wallets,            \* table wallets: ownerClerkUserId -> balanceCents
    walletLedger,       \* table wallet_ledger, in insertion order
    payments,           \* table payments, in insertion order
    credited,           \* provider payment ids the provider reports as credited
    baseFeeEnv,         \* process.env.BASE_FEE_CENTS
    splitCount,         \* splits created so far
    slugCount,          \* public slugs issued so far
    publicRequest,      \* the GET /public/:slug request in flight
    response,           \* the last response of GET /public/:slug
    requests,           \* the PUT, POST /pay and webhook requests in flight,
                        \* each at the await it has reached
    requestCount        \* PUT, POST /pay and webhook requests begun so far

inputs == <<participantsList, itemsList, shares, extrasList, baseFeeCents, aiCents>>
locals == <<pc, itemIdx, extraIdx, participantTotals, itemsOnlyTotals,
            participantTotalsRawCents, itemsOnlyTotalsRawCents,
            itemsTotalCents, extrasTotalCents, last, outcome>>
system == <<splits, bills, splitCosts, wallets, walletLedger, payments, credited,
            baseFeeEnv, splitCount, slugCount, publicRequest, response, requests,
            requestCount>>
vars == <<inputs, locals, system>>

\* ----------------------------------------------------------------- helpers
Abs(x) == IF x < 0 THEN -x ELSE x
Min(a, b) == IF a < b THEN a ELSE b

RECURSIVE SumOver(_, _)
SumOver(f, S) ==
    IF S = {} THEN 0
    ELSE LET x == CHOOSE y \in S : TRUE IN f[x] + SumOver(f, S \ {x})

SumFn(f) == SumOver(f, DOMAIN f)

SeqsUpTo(S, n) == UNION {[1..k -> S] : k \in 0..n}

Range(s) == {s[i] : i \in DOMAIN s}

\* Array.prototype.sort with a comparator that is a strict weak order: the
\* sort is stable, so equal elements keep their relative order.  less[i][j]
\* says that the comparator puts s[i] before s[j].
SortedBy(s, less) ==
    LET n == Len(s)
        before(j, i) == less[j][i] \/ (~less[i][j] /\ j < i)
        rank(i) == Cardinality({j \in 1..n : j # i /\ before(j, i)}) + 1
    IN  [k \in 1..n |-> s[CHOOSE i \in 1..n : rank(i) = k]]

\* ------------------------------------------------------ rational arithmetic
RECURSIVE gcdLoop(_, _)
gcdLoop(x, y) == IF y = 0 THEN x ELSE gcdLoop(y, x % y)

gcdBigInt(a, b) == gcdLoop(Abs(a), Abs(b))

\* callers pass a consumer count or a positive items total as denominator,
\* so the "denominator 0" throw of the code is never taken
normalizeFraction(f) ==
    IF f.num = 0 THEN [num |-> 0, den |-> 1]
    ELSE LET sign == IF f.den < 0 THEN -1 ELSE 1
             num == f.num * sign
             den == f.den * sign
             g == gcdBigInt(num, den)
         IN  [num |-> num \div g, den |-> den \div g]

addFractions(a, b) ==
    normalizeFraction([num |-> a.num * b.den + b.num * a.den, den |-> a.den * b.den])

ZeroFraction == [num |-> 0, den |-> 1]

\* ------------------------------------------------------------ distributeCents
distributeCentsRemainderLast(amount, count) ==
    IF count = 0 THEN <<>>
    ELSE LET base == amount \div count
             remainder == amount % count
         IN  [i \in 1..count |-> IF count - i < remainder THEN base + 1 ELSE base]

distributeCents(amount, count) ==
    IF count = 0 THEN <<>>
    ELSE LET base == amount \div count
             remainder == amount % count
         IN  [i \in 1..count |-> IF i - 1 < remainder THEN base + 1 ELSE base]

\* ------------------------------------------------- participant map and order
IdsOf(ps) == {ps[i].id : i \in DOMAIN ps}

\* participantMap: Map.set keeps the last entry of an id
participantMapOf(ps) ==
    [id \in IdsOf(ps) |->
        ps[CHOOSE i \in DOMAIN ps :
              ps[i].id = id /\ \A j \in DOMAIN ps : ps[j].id = id => j <= i]]

sortParticipantsLessNoTieBreak(pm, a, b) == pm[a].sortOrder < pm[b].sortOrder

\* the comparator of sortParticipants: sortOrder ASC, then id ASC
sortParticipantsLess(pm, a, b) ==
    \/ pm[a].sortOrder < pm[b].sortOrder
    \/ pm[a].sortOrder = pm[b].sortOrder /\ a < b

sortParticipants(pm, pIds) ==
    SortedBy(pIds, [i \in DOMAIN pIds |-> [j \in DOMAIN pIds |->
                       sortParticipantsLess(pm, pIds[i], pIds[j])]])

\* pIds.forEach(pid => totals[pid] += shareOf[pid])
RECURSIVE AddEach(_, _, _)
AddEach(totals, pIds, shareOf) ==
    IF pIds = <<>> THEN totals
    ELSE AddEach([totals EXCEPT ![Head(pIds)] = @ + shareOf[Head(pIds)]],
                 Tail(pIds), shareOf)

\* pIds.forEach(pid => raw[pid] = addFractions(raw[pid], shareOf[pid]))
RECURSIVE AddEachFraction(_, _, _)
AddEachFraction(raw, pIds, shareOf) ==
    IF pIds = <<>> THEN raw
    ELSE AddEachFraction([raw EXCEPT ![Head(pIds)] = addFractions(@, shareOf[Head(pIds)])],
                         Tail(pIds), shareOf)

\* ------------------------------------------------------------- the item loop
\* shares.filter(s => s.itemId === item.id).map(s => s.participantId)
Consumers(sh, item) ==
    LET mine == SelectSeq(sh, LAMBDA s : s.itemId = item.id)
    IN  [i \in DOMAIN mine |-> mine[i].participantId]

\* consumers.filter(cid => participantMap.has(cid))
ValidConsumers(pm, consumers) == SelectSeq(consumers, LAMBDA cid : cid \in DOMAIN pm)

\* const count = validConsumers.length
ConsumerCountUnfiltered(pm, consumers) == Len(consumers)

ConsumerCount(pm, consumers) == Len(ValidConsumers(pm, consumers))

\* the comparator that picks the remainder recipients: lower running
\* item-only total first, then sortOrder, then id
remainderLess(pm, totalsSnapshot, a, b) ==
    \/ totalsSnapshot[a] < totalsSnapshot[b]
    \/ totalsSnapshot[a] = totalsSnapshot[b] /\ sortParticipantsLess(pm, a, b)

\* remainderSet of one item; slice(0, remainder) stops at the end of the array
RemainderSet(pm, io, validConsumers, remainder) ==
    IF remainder > 0
    THEN Range(SubSeq(SortedBy(validConsumers,
                               [i \in DOMAIN validConsumers |->
                                   [j \in DOMAIN validConsumers |->
                                       remainderLess(pm, io, validConsumers[i],
                                                     validConsumers[j])]]),
                      1, Min(remainder, Len(validConsumers))))
    ELSE {}

\* One iteration of "for (const item of itemsList)".  acc holds the
\* accumulators of the function; the result says whether the orphan error
\* was thrown and, if not, the accumulators after the iteration.
ItemStep(pm, sh, acc, item) ==
    LET validConsumers == sortParticipants(pm, ValidConsumers(pm, Consumers(sh, item)))
        count == ConsumerCount(pm, Consumers(sh, item))
    IN  IF Len(validConsumers) = 0
        THEN [orphan |-> TRUE, acc |-> [acc EXCEPT !.itemsTotalCents = @ + item.amountCents]]
        ELSE
        LET base == item.amountCents \div count
            remainder == item.amountCents % count
            remainderSet == RemainderSet(pm, acc.itemsOnlyTotals, validConsumers, remainder)
            share == [pid \in DOMAIN pm |-> base + (IF pid \in remainderSet THEN 1 ELSE 0)]
            rawShare == normalizeFraction([num |-> item.amountCents, den |-> count])
            rawOf == [pid \in DOMAIN pm |-> rawShare]
        IN  [orphan |-> FALSE,
             acc |-> [participantTotals |-> AddEach(acc.participantTotals, validConsumers, share),
                      itemsOnlyTotals |-> AddEach(acc.itemsOnlyTotals, validConsumers, share),
                      participantTotalsRawCents |->
                          AddEachFraction(acc.participantTotalsRawCents, validConsumers, rawOf),
                      itemsOnlyTotalsRawCents |->
                          AddEachFraction(acc.itemsOnlyTotalsRawCents, validConsumers, rawOf),
                      itemsTotalCents |-> acc.itemsTotalCents + item.amountCents,
                      extrasTotalCents |-> acc.extrasTotalCents]]

\* ----------------------------------------------------------- the extras loop
\* value || 0
OrZero(value) == IF value = Null THEN 0 ELSE value

\* extraAmount of one extra
ExtraAmount(extra, itemsTotal) ==
    IF extra.type = "FIXED" THEN OrZero(extra.valueCents)
    ELSE IF extra.type = "SERVICE_PERCENT"
         THEN (itemsTotal * OrZero(extra.valuePercentBp)) \div BpDenominator
         ELSE 0

PercentBaseRunningTotal(acc) == acc.itemsTotalCents + acc.extrasTotalCents

\* the total a SERVICE_PERCENT rate applies to: itemsTotalCents
PercentBase(acc) == acc.itemsTotalCents

\* pIds.forEach((pid, idx) => totals[pid] += parts[idx])
RECURSIVE AddParts(_, _, _, _)
AddParts(totals, pIds, parts, idx) ==
    IF idx > Len(pIds) THEN totals
    ELSE AddParts([totals EXCEPT ![pIds[idx]] = @ + parts[idx]], pIds, parts, idx + 1)

ProportionalBaseRunningTotal(acc, pid) == acc.participantTotals[pid]

\* the consumption a PROPORTIONAL extra is apportioned on
ProportionalBase(acc, pid) == acc.itemsOnlyTotals[pid]

\* distributionCandidates, in participantsList order; the fraction
\* rawShare - baseShare is kept as its numerator over totalItemsConsumedCents
DistributionCandidates(ps, acc, extraAmount, total) ==
    [i \in DOMAIN ps |->
        LET consumption == ProportionalBase(acc, ps[i].id)
        IN  [pid |-> ps[i].id,
             baseShare |-> (extraAmount * consumption) \div total,
             fraction |-> (extraAmount * consumption) % total,
             participant |-> ps[i]]]

largestRemainderLessAscending(total, a, b) ==
    IF Abs(b.fraction - a.fraction) > total \div EpsilonInverse
    THEN a.fraction < b.fraction
    ELSE \/ a.participant.sortOrder < b.participant.sortOrder
         \/ /\ a.participant.sortOrder = b.participant.sortOrder
            /\ a.participant.id < b.participant.id

largestRemainderLessOrderOnly(total, a, b) ==
    \/ a.participant.sortOrder < b.participant.sortOrder
    \/ /\ a.participant.sortOrder = b.participant.sortOrder
       /\ a.participant.id < b.participant.id

\* the comparator of distributionCandidates.sort: fraction DESC unless the
\* fractions are within 1e-9, then sortOrder ASC, id ASC
largestRemainderLess(total, a, b) ==
    IF Abs(b.fraction - a.fraction) > total \div EpsilonInverse
    THEN a.fraction > b.fraction
    ELSE \/ a.participant.sortOrder < b.participant.sortOrder
         \/ /\ a.participant.sortOrder = b.participant.sortOrder
            /\ a.participant.id < b.participant.id

RECURSIVE SumBaseShares(_, _)
SumBaseShares(cands, i) ==
    IF i > Len(cands) THEN 0 ELSE cands[i].baseShare + SumBaseShares(cands, i + 1)

\* Allocation of an EQUAL extra: the integer and the raw totals after it
EqualAllocation(ps, pm, acc, extraAmount) ==
    LET count == Len(ps)
    IN  IF count > 0
        THEN LET pIds == sortParticipants(pm, [i \in DOMAIN ps |-> ps[i].id])
                 parts == distributeCents(extraAmount, count)
                 rawPart == normalizeFraction([num |-> extraAmount, den |-> count])
             IN  [acc EXCEPT
                    !.participantTotals = AddParts(@, pIds, parts, 1),
                    !.participantTotalsRawCents =
                        AddEachFraction(@, pIds, [pid \in DOMAIN pm |-> rawPart])]
        ELSE acc

\* Allocation of a PROPORTIONAL extra (largest remainder method).  typeError
\* is the read of distributionCandidates[i] past the end of the array.
ProportionalAllocation(ps, acc, extraAmount, total) ==
    IF total > 0
    THEN LET cands == DistributionCandidates(ps, acc, extraAmount, total)
             assignedTotal == SumBaseShares(cands, 1)
             withBase == AddParts(acc.participantTotals,
                                  [i \in DOMAIN cands |-> cands[i].pid],
                                  [i \in DOMAIN cands |-> cands[i].baseShare], 1)
             remainderToDistribute == extraAmount - assignedTotal
             sorted == SortedBy(cands, [i \in DOMAIN cands |-> [j \in DOMAIN cands |->
                                           largestRemainderLess(total, cands[i], cands[j])]])
             n == Min(IF remainderToDistribute > 0 THEN remainderToDistribute ELSE 0,
                      Len(cands))
             recipients == [i \in 1..n |-> sorted[i].pid]
         IN  [typeError |-> remainderToDistribute > Len(cands),
              acc |-> [acc EXCEPT !.participantTotals =
                          AddEach(withBase, recipients,
                                  [pid \in DOMAIN acc.participantTotals |-> 1])]]
    ELSE [typeError |-> FALSE, acc |-> acc]

\* One iteration of "for (const extra of extrasList)"
ExtraStep(ps, pm, acc, extra) ==
    LET extraAmount == ExtraAmount(extra, PercentBase(acc))
        counted == [acc EXCEPT !.extrasTotalCents = @ + extraAmount]
    IN  IF extraAmount > 0
        THEN IF extra.allocationMode = "EQUAL"
             THEN [typeError |-> FALSE, acc |-> EqualAllocation(ps, pm, counted, extraAmount)]
             ELSE IF extra.allocationMode = "PROPORTIONAL"
                  THEN ProportionalAllocation(ps, counted, extraAmount, acc.itemsTotalCents)
                  ELSE [typeError |-> FALSE, acc |-> counted]
        ELSE [typeError |-> FALSE, acc |-> counted]

\* ------------------------------------------- raw (exact) proportional pass
RECURSIVE RawShares(_, _, _, _, _)
RawShares(raw, ps, ioRaw, extraAmount, total) ==
    IF ps = <<>> THEN raw
    ELSE LET consumption == ioRaw[Head(ps).id]
             share == normalizeFraction([num |-> extraAmount * consumption.num,
                                         den |-> consumption.den * total])
         IN  RawShares([raw EXCEPT ![Head(ps).id] = addFractions(@, share)],
                       Tail(ps), ioRaw, extraAmount, total)

RECURSIVE RawProportional(_, _, _, _)
RawProportional(ps, acc, extras, k) ==
    IF k > Len(extras) THEN acc
    ELSE LET extraAmount == ExtraAmount(extras[k], PercentBase(acc))
         IN  IF extraAmount > 0 /\ extras[k].allocationMode = "PROPORTIONAL"
             THEN RawProportional(ps,
                      [acc EXCEPT !.participantTotalsRawCents =
                          RawShares(@, ps, acc.itemsOnlyTotalsRawCents,
                                    extraAmount, acc.itemsTotalCents)],
                      extras, k + 1)
             ELSE RawProportional(ps, acc, extras, k + 1)

RawPassSkipped(ps, acc, extras) == acc

RawPass(ps, acc, extras) ==
    IF Len(extras) > 0 /\ acc.itemsTotalCents > 0
    THEN RawProportional(ps, acc, extras, 1)
    ELSE acc

\* --------------------------------------------------- exact-value formatter
RAW_DECIMALS == 6

RECURSIVE LongDivision(_, _, _)
\* the digit loop of formatBRLFromFraction: <<digits, final remainder>>
LongDivision(remainder, d, k) ==
    IF k = 0 THEN [digits |-> <<>>, remainder |-> remainder]
    ELSE LET r10 == remainder * 10
             rest == LongDivision(r10 % d, d, k - 1)
         IN  [digits |-> <<r10 \div d>> \o rest.digits, remainder |-> rest.remainder]

formatBRLWithoutMarker(num, den, extraDecimals) ==
    [integerPart |-> Abs(num) \div Abs(den),
     fracDigits |-> LongDivision(Abs(num) % Abs(den), Abs(den), extraDecimals).digits,
     hasMore |-> FALSE]

\* "R$ <integerPart>,<fracDigits><hasMore ? ellipsis : nothing>", kept as its
\* three parts; the thousands separators of the integer part are not modelled
formatBRLFromFraction(num, den, extraDecimals) ==
    LET n == Abs(num)
        d == Abs(den)
        division == LongDivision(n % d, d, extraDecimals)
    IN  [integerPart |-> n \div d,
         fracDigits |-> division.digits,
         hasMore |-> division.remainder # 0]

\* ------------------------------------------------ final sum check and return
SumCheckSkipped(sumParticipants, checkTotal) == FALSE

\* if (sumParticipants !== checkTotal) throw
SumCheckFails(sumParticipants, checkTotal) == sumParticipants # checkTotal

FinalTotalBillOnly(checkTotal, baseFee, ai) == checkTotal

\* finalTotalToPayCents: platformFeesCents = baseFeeCents + aiCents
FinalTotalToPay(checkTotal, baseFee, ai) == baseFee + ai

GrandTotalWithFees(checkTotal, baseFee, ai) == checkTotal + baseFee + ai

\* grandTotalCents: checkTotal, the bill alone
GrandTotal(checkTotal, baseFee, ai) == checkTotal

Finish(ps, acc, baseFee, ai) ==
    LET sumParticipants == SumFn(acc.participantTotals)
        checkTotal == acc.itemsTotalCents + acc.extrasTotalCents
    IN  IF SumCheckFails(sumParticipants, checkTotal)
        THEN [kind |-> "invariant", sumParticipants |-> sumParticipants,
              checkTotal |-> checkTotal]
        ELSE [kind |-> "result",
              participantTotals |-> acc.participantTotals,
              participantTotalsRaw |->
                  [pid \in DOMAIN acc.participantTotalsRawCents |->
                      formatBRLFromFraction(acc.participantTotalsRawCents[pid].num,
                                            acc.participantTotalsRawCents[pid].den * 100,
                                            RAW_DECIMALS)],
              itemsTotalCents |-> acc.itemsTotalCents,
              extrasTotalCents |-> acc.extrasTotalCents,
              grandTotalCents |-> GrandTotal(checkTotal, baseFee, ai),
              baseFeeCents |-> baseFee,
              aiCents |-> ai,
              finalTotalToPayCents |-> FinalTotalToPay(checkTotal, baseFee, ai)]

\* ------------------------------------------- calculateSplit as one function
\* lines 108-124: every accumulator starts at zero for every participant
InitialAcc(ps) ==
    [participantTotals |-> [id \in IdsOf(ps) |-> 0],
     itemsOnlyTotals |-> [id \in IdsOf(ps) |-> 0],
     participantTotalsRawCents |-> [id \in IdsOf(ps) |-> ZeroFraction],
     itemsOnlyTotalsRawCents |-> [id \in IdsOf(ps) |-> ZeroFraction],
     itemsTotalCents |-> 0,
     extrasTotalCents |-> 0]

RECURSIVE ItemsLoop(_, _, _, _, _)
ItemsLoop(pm, sh, acc, items, k) ==
    IF k > Len(items) THEN [orphan |-> FALSE, acc |-> acc]
    ELSE LET r == ItemStep(pm, sh, acc, items[k])
         IN  IF r.orphan THEN [orphan |-> TRUE, itemName |-> items[k].name, acc |-> r.acc]
             ELSE ItemsLoop(pm, sh, r.acc, items, k + 1)

RECURSIVE ExtrasLoop(_, _, _, _, _)
ExtrasLoop(ps, pm, acc, extras, k) ==
    IF k > Len(extras) THEN [typeError |-> FALSE, acc |-> acc]
    ELSE LET r == ExtraStep(ps, pm, acc, extras[k])
         IN  IF r.typeError THEN r ELSE ExtrasLoop(ps, pm, r.acc, extras, k + 1)

OrphanErrorUnnamed(itemName) == [kind |-> "orphan", itemName |-> ""]

\* Error(`Item "${item.name}" has no valid consumers`)
OrphanError(itemName) == [kind |-> "orphan", itemName |-> itemName]
TypeError == [kind |-> "typeError"]

\* the raw pass, unless the extras loop read past the candidate list
AfterExtras(ps, extras, afterExtras) ==
    IF afterExtras.typeError THEN [error |-> TypeError]
    ELSE [acc |-> RawPass(ps, afterExtras.acc, extras)]

\* the extras loop and what follows, unless the item loop threw
AfterItems(ps, pm, extras, afterItems) ==
    IF afterItems.orphan THEN [error |-> OrphanError(afterItems.itemName)]
    ELSE AfterExtras(ps, extras, ExtrasLoop(ps, pm, afterItems.acc, extras, 1))

\* the accumulators when the loops are over (before the final check), or the
\* error that ended the call earlier
Allocate(ps, items, sh, extras) ==
    AfterItems(ps, participantMapOf(ps), extras,
               ItemsLoop(participantMapOf(ps), sh, InitialAcc(ps), items, 1))

\* the final check on the accumulators, unless the call ended earlier
Finished(ps, a, baseFee, ai) ==
    IF "error" \in DOMAIN a THEN a.error ELSE Finish(ps, a.acc, baseFee, ai)

calculateSplit(ps, items, sh, extras, baseFee, ai) ==
    Finished(ps, Allocate(ps, items, sh, extras), baseFee, ai)

\* ------------------------------------------------------------ state machine
Acc ==
    [participantTotals |-> participantTotals,
     itemsOnlyTotals |-> itemsOnlyTotals,
     participantTotalsRawCents |-> participantTotalsRawCents,
     itemsOnlyTotalsRawCents |-> itemsOnlyTotalsRawCents,
     itemsTotalCents |-> itemsTotalCents,
     extrasTotalCents |-> extrasTotalCents]

SetAcc(acc) ==
    /\ participantTotals' = acc.participantTotals
    /\ itemsOnlyTotals' = acc.itemsOnlyTotals
    /\ participantTotalsRawCents' = acc.participantTotalsRawCents
    /\ itemsOnlyTotalsRawCents' = acc.itemsOnlyTotalsRawCents
    /\ itemsTotalCents' = acc.itemsTotalCents
    /\ extrasTotalCents' = acc.extrasTotalCents

NoStep == [kind |-> "none"]
Running == [kind |-> "running"]

\* The inputs the model draws from.  An input has at most MaxSize loop
\* iterations (items plus extras, plus one when a platform fee is charged)
\* and at most MaxShares shares and extras together.
ParticipantLists ==
    {ps \in SeqsUpTo([id : ParticipantIds, sortOrder : SortOrders], MaxParticipants) :
        \A i, j \in DOMAIN ps : ps[i].id = ps[j].id => i = j}

ItemListsOf(n) ==
    {[i \in 1..n |-> [id |-> i, name |-> ItemNames[i], amountCents |-> amounts[i]]] :
        amounts \in [1..n -> 0..MaxAmountCents]}

ShareListsOf(n, k) == SeqsUpTo([itemId : 1..n, participantId : ParticipantIds], k)

Extras ==
    [type : {"FIXED"}, valueCents : 0..MaxValueCents, valuePercentBp : {Null},
     allocationMode : {"EQUAL", "PROPORTIONAL"}]
    \cup
    [type : {"SERVICE_PERCENT"}, valueCents : {Null}, valuePercentBp : BpRates \cup {Null},
     allocationMode : {"EQUAL", "PROPORTIONAL"}]

InputShapes ==
    {t \in (0..MaxItems) \X (0..MaxExtras) \X (0..MaxFeeCents) \X (0..MaxFeeCents) :
        t[1] + t[2] + (IF t[3] + t[4] > 0 THEN 1 ELSE 0) <= MaxSize}

Inputs ==
    UNION {[ps : ParticipantLists,
            items : ItemListsOf(t[1]),
            sh : ShareListsOf(t[1], MaxShares - t[2]),
            extras : [1..t[2] -> Extras],
            baseFee : {t[3]},
            ai : {t[4]}] : t \in InputShapes}

\* The wide input family: every bill has WideParticipants participants, each
\* item a set of consumers among them (no share repeated, none unknown) and
\* one to MaxExtras FIXED extras of positive value.
WideParticipantLists ==
    {[i \in 1..WideParticipants |-> [id |-> i, sortOrder |-> so[i]]] :
        so \in [1..WideParticipants -> SortOrders]}

\* the shares of a bill whose item k is consumed by the set consumersOf[k],
\* listed by item, then by participant
SharesOf(consumersOf) ==
    LET pairs == {pr \in (DOMAIN consumersOf) \X (1..WideParticipants) :
                     pr[2] \in consumersOf[pr[1]]}
        key(pr) == pr[1] * (WideParticipants + 1) + pr[2]
    IN  [k \in 1..Cardinality(pairs) |->
            LET pr == CHOOSE x \in pairs :
                          Cardinality({y \in pairs : key(y) < key(x)}) = k - 1
            IN  [itemId |-> pr[1], participantId |-> pr[2]]]

WideShareListsOf(n) ==
    {SharesOf(consumersOf) : consumersOf \in [1..n -> SUBSET (1..WideParticipants)]}

WideExtras ==
    [type : {"FIXED"}, valueCents : 1..MaxValueCents, valuePercentBp : {Null},
     allocationMode : {"EQUAL", "PROPORTIONAL"}]

WideInputs ==
    UNION {[ps : WideParticipantLists,
            items : ItemListsOf(t[1]),
            sh : WideShareListsOf(t[1]),
            extras : [1..t[2] -> WideExtras],
            baseFee : {0},
            ai : {0}] : t \in (1..MaxItems) \X (1..MaxExtras)}

\* a table without rows
EmptyTable == [k \in {} |-> k]

Idle == [pc |-> "idle"]
NoResponse == [status |-> 0]

\* the database before the first request: no row in any table
EmptyDatabase ==
    /\ splits = EmptyTable
    /\ bills = EmptyTable
    /\ splitCosts = EmptyTable
    /\ wallets = EmptyTable
    /\ walletLedger = <<>>
    /\ payments = <<>>
    /\ credited = {}
    /\ splitCount = 0
    /\ slugCount = 0
    /\ publicRequest = Idle
    /\ response = NoResponse
    /\ requests = [slot \in 1..MaxInFlight |-> Idle]
    /\ requestCount = 0

\* the state at the entry of calculateSplit, called on an input of the set
InitOn(inputSet) ==
    /\ \E in \in inputSet :
          /\ participantsList = in.ps
          /\ itemsList = in.items
          /\ shares = in.sh
          /\ extrasList = in.extras
          /\ baseFeeCents = in.baseFee
          /\ aiCents = in.ai
    /\ pc = "items"
    /\ itemIdx = 1
    /\ extraIdx = 1
    /\ participantTotals = InitialAcc(participantsList).participantTotals
    /\ itemsOnlyTotals = InitialAcc(participantsList).itemsOnlyTotals
    /\ participantTotalsRawCents = InitialAcc(participantsList).participantTotalsRawCents
    /\ itemsOnlyTotalsRawCents = InitialAcc(participantsList).itemsOnlyTotalsRawCents
    /\ itemsTotalCents = 0
    /\ extrasTotalCents = 0
    /\ last = NoStep
    /\ outcome = Running
    /\ EmptyDatabase
    /\ baseFeeEnv = 0

Init == InitOn(Inputs)

WideInit == InitOn(WideInputs)

Delta(after, before) == [id \in DOMAIN after |-> after[id] - before[id]]

ParticipantsSortedInPlace(ps) ==
    SortedBy(ps, [i \in DOMAIN ps |-> [j \in DOMAIN ps |->
                     \/ ps[i].sortOrder < ps[j].sortOrder
                     \/ ps[i].sortOrder = ps[j].sortOrder /\ ps[i].id < ps[j].id]])

\* participantsList.map(p => p.id) builds a new array: sortParticipants
\* sorts the copy and participantsList keeps its order
ParticipantsListAfterSort(ps) == ps

\* an iteration of the item loop that finds valid consumers
ProcessItem ==
    /\ pc = "items"
    /\ itemIdx <= Len(itemsList)
    /\ LET pm == participantMapOf(participantsList)
           item == itemsList[itemIdx]
           r == ItemStep(pm, shares, Acc, item)
       IN  /\ ~r.orphan
           /\ SetAcc(r.acc)
           /\ last' = [kind |-> "item", index |-> itemIdx, amount |-> item.amountCents,
                       consumers |-> Len(ValidConsumers(pm, Consumers(shares, item))),
                       alloc |-> Delta(r.acc.participantTotals, participantTotals)]
    /\ itemIdx' = itemIdx + 1
    /\ UNCHANGED <<system, inputs, pc, extraIdx, outcome>>

\* an iteration of the item loop that finds no valid consumer: throw
ThrowOrphan ==
    /\ pc = "items"
    /\ itemIdx <= Len(itemsList)
    /\ LET pm == participantMapOf(participantsList)
           item == itemsList[itemIdx]
           r == ItemStep(pm, shares, Acc, item)
       IN  /\ r.orphan
           /\ SetAcc(r.acc)
           /\ outcome' = OrphanError(item.name)
    /\ pc' = "thrown"
    /\ UNCHANGED <<system, inputs, itemIdx, extraIdx, last>>

\* lines 198-203: the item loop is over
StartExtras ==
    /\ pc = "items"
    /\ itemIdx > Len(itemsList)
    /\ pc' = "extras"
    /\ UNCHANGED <<system, inputs, itemIdx, extraIdx, participantTotals, itemsOnlyTotals,
                   participantTotalsRawCents, itemsOnlyTotalsRawCents,
                   itemsTotalCents, extrasTotalCents, last, outcome>>

\* an iteration of the extras loop
ProcessExtra ==
    /\ pc = "extras"
    /\ extraIdx <= Len(extrasList)
    /\ LET pm == participantMapOf(participantsList)
           extra == extrasList[extraIdx]
           r == ExtraStep(participantsList, pm, Acc, extra)
       IN  /\ SetAcc(r.acc)
           /\ last' = [kind |-> "extra", index |-> extraIdx,
                       amount |-> ExtraAmount(extra, PercentBase(Acc)),
                       mode |-> extra.allocationMode,
                       alloc |-> Delta(r.acc.participantTotals, participantTotals)]
           /\ pc' = IF r.typeError THEN "thrown" ELSE "extras"
           /\ outcome' = IF r.typeError THEN TypeError ELSE outcome
    /\ extraIdx' = extraIdx + 1
    /\ participantsList' = ParticipantsListAfterSort(participantsList)
    /\ UNCHANGED <<system, itemsList, shares, extrasList, baseFeeCents, aiCents, itemIdx>>

\* lines 311-339: the second pass over the extras, on the exact fractions
RawProportionalPass ==
    /\ pc = "extras"
    /\ extraIdx > Len(extrasList)
    /\ SetAcc(RawPass(participantsList, Acc, extrasList))
    /\ pc' = "check"
    /\ UNCHANGED <<system, inputs, itemIdx, extraIdx, last, outcome>>

\* lines 341-370: the sums agree and the result is returned
Return ==
    /\ pc = "check"
    /\ LET r == Finish(participantsList, Acc, baseFeeCents, aiCents)
       IN  /\ r.kind = "result"
           /\ outcome' = r
    /\ pc' = "returned"
    /\ UNCHANGED <<system, inputs, itemIdx, extraIdx, participantTotals, itemsOnlyTotals,
                   participantTotalsRawCents, itemsOnlyTotalsRawCents,
                   itemsTotalCents, extrasTotalCents, last>>

\* lines 345-347: the sums differ and "Invariant failed" is thrown
ThrowInvariant ==
    /\ pc = "check"
    /\ LET r == Finish(participantsList, Acc, baseFeeCents, aiCents)
       IN  /\ r.kind = "invariant"
           /\ outcome' = r
    /\ pc' = "thrown"
    /\ UNCHANGED <<system, inputs, itemIdx, extraIdx, participantTotals, itemsOnlyTotals,
                   participantTotalsRawCents, itemsOnlyTotalsRawCents,
                   itemsTotalCents, extrasTotalCents, last>>

Next ==
    \/ ProcessItem
    \/ ThrowOrphan
    \/ StartExtras
    \/ ProcessExtra
    \/ RawProportionalPass
    \/ Return
    \/ ThrowInvariant

Spec == Init /\ [][Next]_vars

\* the same call on the bills of the wide input family
WideSpec == WideInit /\ [][Next]_vars

TypeOK ==
    /\ pc \in {"idle", "items", "extras", "check", "returned", "thrown"}
    /\ outcome.kind \in {"running", "result", "orphan", "invariant", "typeError"}

\* ================================================================ the routes
\* The HTTP routes over the database: POST /splits, DELETE /splits/:id,
\* PUT /splits/:id/items, POST /splits/:id/compute-review, POST
\* /splits/:id/pay, POST /webhooks/mercadopago, GET /public/:slug.  A request
\* is one step, except GET /public/:slug, which reads the split and, in a
\* second query, the shares.  Ids that the code draws with randomUUID are
\* fresh numbers; item and participant ids are local to their split.
Users == {"u1", "u2"}
SplitIds == 1..MaxSplits
\* peopleCount of POST /splits: its default
PeopleCount == 2

Put(table, key, row) ==
    [k \in DOMAIN table \cup {key} |-> IF k = key THEN row ELSE table[k]]

Remove(table, key) == [k \in DOMAIN table \ {key} |-> table[k]]

\* no call of calculateSplit is traced while the routes run
CalculationIdle ==
    /\ participantsList = <<>>
    /\ itemsList = <<>>
    /\ shares = <<>>
    /\ extrasList = <<>>
    /\ baseFeeCents = 0
    /\ aiCents = 0
    /\ pc = "idle"
    /\ itemIdx = 1
    /\ extraIdx = 1
    /\ participantTotals = EmptyTable
    /\ itemsOnlyTotals = EmptyTable
    /\ participantTotalsRawCents = EmptyTable
    /\ itemsOnlyTotalsRawCents = EmptyTable
    /\ itemsTotalCents = 0
    /\ extrasTotalCents = 0
    /\ last = NoStep
    /\ outcome = Running

RoutesInit ==
    /\ CalculationIdle
    /\ EmptyDatabase
    /\ baseFeeEnv \in 0..MaxFeeCents

\* POST /splits: a DRAFT split of the caller, without slug, with peopleCount
\* participants of sortOrder 0, 1, ...
CreateSplit(userId) ==
    /\ splitCount < MaxSplits
    /\ LET id == splitCount + 1
       IN  /\ splits' = Put(splits, id, [ownerClerkUserId |-> userId,
                                         status |-> "DRAFT",
                                         publicSlug |-> Null])
           /\ bills' = Put(bills, id,
                           [participants |-> [i \in 1..PeopleCount |->
                                                 [id |-> i, sortOrder |-> i - 1]],
                            items |-> <<>>,
                            itemShares |-> <<>>,
                            extras |-> <<>>])
    /\ splitCount' = splitCount + 1
    /\ UNCHANGED <<inputs, locals, requests, requestCount, splitCosts, wallets, walletLedger, payments,
                   credited, baseFeeEnv, slugCount, publicRequest, response>>

\* payments.splitId = null for the payments of a deleted split
Detached(rows, id) ==
    [k \in DOMAIN rows |-> IF rows[k].splitId = id
                           THEN [rows[k] EXCEPT !.splitId = Null]
                           ELSE rows[k]]

\* DELETE /splits/:id by its owner, whatever the status of the split
DeleteSplit(userId, id) ==
    /\ id \in DOMAIN splits
    /\ splits[id].ownerClerkUserId = userId
    /\ splits' = Remove(splits, id)
    /\ bills' = Remove(bills, id)
    /\ splitCosts' = Remove(splitCosts, id)
    /\ payments' = Detached(payments, id)
    /\ UNCHANGED <<inputs, locals, requests, requestCount, wallets, walletLedger, credited, baseFeeEnv,
                   splitCount, slugCount, publicRequest, response>>

\* the bodies of PUT /splits/:id/items the model draws from
ItemRequests ==
    {<<>>} \cup
    {<<[name |-> "A", amountCents |-> 1, consumerIds |-> c]>> :
        c \in {<<>>, <<1>>, <<PeopleCount + 1>>}}

RECURSIVE SharesOfItems(_, _)
\* batchShares: one row per consumer id of each item from the k-th on
SharesOfItems(newItems, k) ==
    IF k > Len(newItems) THEN <<>>
    ELSE [i \in DOMAIN newItems[k].consumerIds |->
             [itemId |-> k, participantId |-> newItems[k].consumerIds[i]]]
         \o SharesOfItems(newItems, k + 1)

\* PUT /splits/:id/items by the owner of a split that is not PAID, with
\* consumer ids of the split's participants: the items and shares of the
\* split are replaced
PutItems(userId, id, newItems) ==
    /\ id \in DOMAIN splits
    /\ splits[id].ownerClerkUserId = userId
    /\ splits[id].status # "PAID"
    /\ \A k \in DOMAIN newItems :
          Range(newItems[k].consumerIds) \subseteq IdsOf(bills[id].participants)
    /\ bills' = [bills EXCEPT
                    ![id].items = [k \in DOMAIN newItems |->
                                      [id |-> k, name |-> newItems[k].name,
                                       amountCents |-> newItems[k].amountCents]],
                    ![id].itemShares = SharesOfItems(newItems, 1)]
    /\ UNCHANGED <<inputs, locals, requests, requestCount, splits, splitCosts, wallets, walletLedger, payments,
                   credited, baseFeeEnv, splitCount, slugCount, publicRequest, response>>

\* POST /splits/:id/compute-review by the owner: the split's price is stored
\* when calculateSplit returns
ComputeReview(userId, id) ==
    /\ id \in DOMAIN splits
    /\ splits[id].ownerClerkUserId = userId
    /\ LET b == bills[id]
           result == calculateSplit(b.participants, b.items, b.itemShares, b.extras,
                                    baseFeeEnv, 0)
       IN  /\ result.kind = "result"
           /\ splitCosts' = Put(splitCosts, id,
                                [baseFeeCents |-> result.baseFeeCents,
                                 aiCents |-> result.aiCents,
                                 totalCents |-> result.finalTotalToPayCents])
    /\ UNCHANGED <<inputs, locals, requests, requestCount, splits, bills, wallets, walletLedger, payments,
                   credited, baseFeeEnv, splitCount, slugCount, publicRequest, response>>

\* WalletService.getBalance
Balance(userId) == IF userId \in DOMAIN wallets THEN wallets[userId] ELSE 0

AddEntryUnchecked(userId, type, amountCents, refType, refId) ==
    LET newBalance == IF type = "TOPUP" THEN Balance(userId) + amountCents
                      ELSE Balance(userId) - amountCents
    IN  [ok |-> TRUE,
         wallets |-> Put(wallets, userId, newBalance),
         walletLedger |-> Append(walletLedger,
                                 [ownerClerkUserId |-> userId, type |-> type,
                                  amountCents |-> amountCents,
                                  refType |-> refType, refId |-> refId])]

\* WalletService.addEntry: the wallet and the ledger after the call, or ok
\* FALSE and both as they were when it throws
AddEntry(userId, type, amountCents, refType, refId) ==
    LET newBalance == IF type = "TOPUP" THEN Balance(userId) + amountCents
                      ELSE Balance(userId) - amountCents
    IN  IF amountCents <= 0 \/ newBalance < 0
        THEN [ok |-> FALSE, wallets |-> wallets, walletLedger |-> walletLedger]
        ELSE [ok |-> TRUE,
              wallets |-> Put(wallets, userId, newBalance),
              walletLedger |-> Append(walletLedger,
                                      [ownerClerkUserId |-> userId, type |-> type,
                                       amountCents |-> amountCents,
                                       refType |-> refType, refId |-> refId])]

\* set({status: "PAID", publicSlug: randomUUID().slice(0, 8)})
MarkedPaid(id) ==
    [splits EXCEPT ![id].status = "PAID", ![id].publicSlug = slugCount + 1]

\* POST /splits/:id/pay by the owner of a priced split that is not PAID: the
\* wallet settles it, or it is free, or a PENDING PIX payment is stored
Pay(userId, id, topupCents, payWithWallet) ==
    /\ id \in DOMAIN splits
    /\ splits[id].ownerClerkUserId = userId
    /\ splits[id].status # "PAID"
    /\ id \in DOMAIN splitCosts
    /\ LET totalCost == splitCosts[id].totalCents
           walletBalance == IF payWithWallet THEN Balance(userId) ELSE 0
           remainingCost == IF totalCost - walletBalance > 0
                            THEN totalCost - walletBalance ELSE 0
           entry == AddEntry(userId, "CHARGE", totalCost, "PAYMENT", id)
           chargeAmount == remainingCost + topupCents
       IN  IF remainingCost = 0 /\ totalCost > 0
           THEN /\ entry.ok
                /\ wallets' = entry.wallets
                /\ walletLedger' = entry.walletLedger
                /\ splits' = MarkedPaid(id)
                /\ slugCount' = slugCount + 1
                /\ UNCHANGED payments
           ELSE IF totalCost = 0
           THEN /\ splits' = MarkedPaid(id)
                /\ slugCount' = slugCount + 1
                /\ UNCHANGED <<wallets, walletLedger, payments>>
           ELSE /\ chargeAmount > 0
                /\ Len(payments) < MaxPayments
                /\ payments' = Append(payments,
                                      [ownerClerkUserId |-> userId,
                                       splitId |-> id,
                                       status |-> "PENDING",
                                       amountCentsTotal |-> chargeAmount,
                                       amountCentsSplitCost |-> remainingCost,
                                       amountCentsTopup |-> topupCents,
                                       providerPaymentId |-> Len(payments) + 1])
                /\ UNCHANGED <<splits, slugCount, wallets, walletLedger>>
    /\ UNCHANGED <<inputs, locals, requests, requestCount, bills, splitCosts, credited, baseFeeEnv,
                   splitCount, publicRequest, response>>

\* the payer pays the PIX charge: from now on the provider reports the
\* payment as approved
CustomerPaysPix(paymentId) ==
    /\ paymentId \in DOMAIN payments
    /\ paymentId \notin credited
    /\ credited' = credited \cup {paymentId}
    /\ UNCHANGED <<inputs, locals, requests, requestCount, splits, bills, splitCosts, wallets, walletLedger,
                   payments, baseFeeEnv, splitCount, slugCount, publicRequest, response>>

FinalBalanceChargeForgotten(afterTopup, cost) == afterTopup

SettlesWhateverStatus(splitId) == splitId \in DOMAIN splits

\* if (split) { if (split.status !== "PAID") {: the split the webhook reads
\* inside its transaction is there and not PAID
SettlesSplit(splitId) == splitId \in DOMAIN splits /\ splits[splitId].status # "PAID"

\* const finalBalance = afterTopup - cost
FinalBalance(afterTopup, cost) == afterTopup - cost

\* POST /webhooks/mercadopago for a credited payment that is stored and not
\* yet APPROVED: the payment becomes APPROVED and, when its split exists and
\* is not PAID, the wallet gets the TOPUP and the CHARGE and the split becomes
\* PAID; a negative final balance rolls the transaction back
Webhook(paymentId) ==
    /\ paymentId \in credited
    /\ paymentId \in DOMAIN payments
    /\ payments[paymentId].status # "APPROVED"
    /\ LET storedPayment == payments[paymentId]
           splitId == storedPayment.splitId
           owner == storedPayment.ownerClerkUserId
           totalPaid == storedPayment.amountCentsTotal
           afterTopup == Balance(owner) + totalPaid
           cost == IF splitId \in DOMAIN splitCosts THEN splitCosts[splitId].totalCents ELSE 0
           finalBalance == FinalBalance(afterTopup, cost)
       IN  /\ payments' = [payments EXCEPT ![paymentId].status = "APPROVED"]
           /\ IF SettlesSplit(splitId)
              THEN /\ finalBalance >= 0
                   /\ walletLedger' = walletLedger \o
                          <<[ownerClerkUserId |-> owner, type |-> "TOPUP",
                             amountCents |-> totalPaid,
                             refType |-> "PAYMENT", refId |-> paymentId],
                            [ownerClerkUserId |-> owner, type |-> "CHARGE",
                             amountCents |-> cost,
                             refType |-> "SPLIT_FEE", refId |-> splitId]>>
                   /\ wallets' = Put(wallets, owner, finalBalance)
                   /\ splits' = MarkedPaid(splitId)
                   /\ slugCount' = slugCount + 1
              ELSE UNCHANGED <<walletLedger, wallets, splits, slugCount>>
    /\ UNCHANGED <<inputs, locals, requests, requestCount, bills, splitCosts, credited, baseFeeEnv,
                   splitCount, publicRequest, response>>

findFirstAnySplit(slug) ==
    IF DOMAIN splits = {} THEN Null ELSE CHOOSE id \in DOMAIN splits : TRUE

\* db.query.splits.findFirst({where: eq(splits.publicSlug, slug)}): the id of
\* the row, or Null when there is none
findFirstBySlug(slug) ==
    IF \E id \in DOMAIN splits : splits[id].publicSlug = slug
    THEN CHOOSE id \in DOMAIN splits : splits[id].publicSlug = slug
    ELSE Null

\* the slugs a GET /public/:slug request may carry: the issued ones and one
\* that is never issued
RequestSlugs == 1..(MaxSplits + 1)

\* GET /public/:slug, first query: 404 unless a PAID split has the slug
GetPublicFind(slug) ==
    /\ publicRequest.pc = "idle"
    /\ LET id == findFirstBySlug(slug)
       IN  IF id = Null
           THEN /\ response' = [status |-> 404, error |-> "Not found"]
                /\ UNCHANGED publicRequest
           ELSE IF splits[id].status # "PAID"
           THEN /\ response' = [status |-> 404, error |-> "Not available yet"]
                /\ UNCHANGED publicRequest
           ELSE /\ publicRequest' =
                      [pc |-> "found", slug |-> slug, id |-> id, split |-> splits[id],
                       participants |-> bills[id].participants,
                       items |-> bills[id].items,
                       extras |-> bills[id].extras,
                       baseFeeCents |-> IF id \in DOMAIN splitCosts
                                        THEN splitCosts[id].baseFeeCents ELSE 0,
                       aiCents |-> IF id \in DOMAIN splitCosts
                                   THEN splitCosts[id].aiCents ELSE 0]
                /\ UNCHANGED response
    /\ UNCHANGED <<inputs, locals, requests, requestCount, splits, bills, splitCosts, wallets, walletLedger,
                   payments, credited, baseFeeEnv, splitCount, slugCount>>

\* GET /public/:slug, second query and response: the shares of the split's
\* items are read and the breakdown is recalculated
GetPublicRespond ==
    /\ publicRequest.pc = "found"
    /\ LET req == publicRequest
           shareRows == IF req.id \in DOMAIN bills THEN bills[req.id].itemShares ELSE <<>>
           splitItemIds == {req.items[k].id : k \in DOMAIN req.items}
           shareInputs == SelectSeq(shareRows, LAMBDA sh : sh.itemId \in splitItemIds)
           result == calculateSplit(req.participants, req.items, shareInputs, req.extras,
                                    req.baseFeeCents, req.aiCents)
       IN  response' =
               IF result.kind = "result"
               THEN [status |-> 200, slug |-> req.slug, split |-> req.id,
                     totals |-> result.participantTotals,
                     grandTotal |-> result.grandTotalCents,
                     proof |-> [items |-> req.items, extras |-> req.extras]]
               ELSE [status |-> 500, slug |-> req.slug]
    /\ publicRequest' = Idle
    /\ UNCHANGED <<inputs, locals, requests, requestCount, splits, bills, splitCosts, wallets, walletLedger,
                   payments, credited, baseFeeEnv, splitCount, slugCount>>

RoutesNext ==
    \/ \E userId \in Users : CreateSplit(userId)
    \/ \E userId \in Users, id \in SplitIds : DeleteSplit(userId, id)
    \/ \E userId \in Users, id \in SplitIds, newItems \in ItemRequests :
           PutItems(userId, id, newItems)
    \/ \E userId \in Users, id \in SplitIds : ComputeReview(userId, id)
    \/ \E userId \in Users, id \in SplitIds, topupCents \in 0..MaxTopupCents,
           payWithWallet \in BOOLEAN : Pay(userId, id, topupCents, payWithWallet)
    \/ \E paymentId \in 1..MaxPayments : CustomerPaysPix(paymentId)
    \/ \E paymentId \in 1..MaxPayments : Webhook(paymentId)
    \/ \E slug \in RequestSlugs : GetPublicFind(slug)
    \/ GetPublicRespond

RoutesSpec == RoutesInit /\ [][RoutesNext]_vars

\* ============================================= the routes, await by await
\* The same handlers as Node runs them: a handler runs up to an await on the
\* database, and requests that arrived meanwhile may run before it goes on.
\* A step is what a handler does between two awaits that matter: the first
\* read with its checks, a getBalance, a db.transaction (SQLite admits one
\* writer at a time, so the body of a transaction runs alone) or a single
\* update or insert.  A request that answers 4xx at its first checks changes
\* nothing and is no step.
RaceUsers == {"u1"}
Slots == 1..MaxInFlight
\* the values randomUUID().slice(0, 8) may give; a value may come again
Slugs == 1..MaxSplits

\* a new request takes the first free place
FirstIdle ==
    IF \E slot \in Slots : requests[slot] = Idle
    THEN CHOOSE slot \in Slots :
             requests[slot] = Idle /\ \A t \in Slots : requests[t] = Idle => slot <= t
    ELSE Null

Begins(slot, request) ==
    /\ slot = FirstIdle
    /\ requestCount < MaxRequests
    /\ requests' = [requests EXCEPT ![slot] = request]
    /\ requestCount' = requestCount + 1

\* the handler goes on to its next await
Continues(slot, request) ==
    /\ requests' = [requests EXCEPT ![slot] = request]
    /\ UNCHANGED requestCount

\* the handler returns or throws: the request is over
Ends(slot) == Continues(slot, Idle)

RacesInit ==
    /\ CalculationIdle
    /\ EmptyDatabase
    /\ baseFeeEnv \in 0..MaxFeeCents

\* the bodies of the three PUT routes the model draws: participant 1 alone,
\* one item of 1 cent consumed by participant 1, one FIXED extra of 1 cent
PutKinds == {"participants", "items", "extras"}

PutBody(kind) ==
    CASE kind = "participants" -> <<[id |-> 1]>>
      [] kind = "items" -> <<[name |-> "A", amountCents |-> 1, consumerIds |-> <<1>>]>>
      [] kind = "extras" -> <<[type |-> "FIXED", valueCents |-> 1, valuePercentBp |-> Null,
                               allocationMode |-> "EQUAL"]>>

\* the transaction of a PUT route on the rows of one split: participants are
\* updated or inserted with sortOrder i and the others deleted; items and
\* shares are replaced; extras are replaced
BillAfterPut(kind, bill, body) ==
    CASE kind = "participants" ->
             [bill EXCEPT !.participants =
                 [i \in DOMAIN body |-> [id |-> body[i].id, sortOrder |-> i - 1]]]
      [] kind = "items" ->
             [bill EXCEPT !.items = [k \in DOMAIN body |->
                                        [id |-> k, name |-> body[k].name,
                                         amountCents |-> body[k].amountCents]],
                          !.itemShares = SharesOfItems(body, 1)]
      [] kind = "extras" -> [bill EXCEPT !.extras = body]

\* PUT /splits/:id/participants, /items, /extras up to the transaction: the
\* split is read and found to be the caller's and not PAID (for /items, the
\* consumer ids are found among the split's participants)
PutRead(slot, userId, kind, id) ==
    /\ id \in DOMAIN splits
    /\ splits[id].ownerClerkUserId = userId
    /\ splits[id].status # "PAID"
    /\ kind = "items" =>
          \A k \in DOMAIN PutBody(kind) :
              Range(PutBody(kind)[k].consumerIds) \subseteq IdsOf(bills[id].participants)
    /\ Begins(slot, [pc |-> "put", kind |-> kind, id |-> id])
    /\ UNCHANGED <<inputs, locals, splits, bills, splitCosts, wallets, walletLedger,
                   payments, credited, baseFeeEnv, splitCount, slugCount,
                   publicRequest, response>>

\* the transaction of the PUT route; the split is not read again.  When
\* the split was deleted meanwhile the inserts fail on the foreign key.
PutWrite(slot) ==
    /\ requests[slot].pc = "put"
    /\ LET req == requests[slot]
       IN  bills' = IF req.id \in DOMAIN bills
                    THEN [bills EXCEPT ![req.id] = BillAfterPut(req.kind, @, PutBody(req.kind))]
                    ELSE bills
    /\ Ends(slot)
    /\ UNCHANGED <<inputs, locals, splits, splitCosts, wallets, walletLedger,
                   payments, credited, baseFeeEnv, splitCount, slugCount,
                   publicRequest, response>>

\* POST /splits/:id/pay up to its first await after the split is read: the
\* split is the caller's, not PAID, and priced
PayRead(slot, userId, id, topupCents, payWithWallet) ==
    /\ id \in DOMAIN splits
    /\ splits[id].ownerClerkUserId = userId
    /\ splits[id].status # "PAID"
    /\ id \in DOMAIN splitCosts
    /\ Begins(slot, IF payWithWallet
                    THEN [pc |-> "payBalance", userId |-> userId, id |-> id,
                          totalCost |-> splitCosts[id].totalCents,
                          topupCents |-> topupCents]
                    ELSE [pc |-> "paySettle", userId |-> userId, id |-> id,
                          totalCost |-> splitCosts[id].totalCents,
                          topupCents |-> topupCents, walletBalance |-> 0])
    /\ UNCHANGED <<inputs, locals, splits, bills, splitCosts, wallets, walletLedger,
                   payments, credited, baseFeeEnv, splitCount, slugCount,
                   publicRequest, response>>

\* await WalletService.getBalance(userId)
PayGetBalance(slot) ==
    /\ requests[slot].pc = "payBalance"
    /\ LET req == requests[slot]
       IN  Continues(slot, [pc |-> "paySettle", userId |-> req.userId, id |-> req.id,
                            totalCost |-> req.totalCost, topupCents |-> req.topupCents,
                            walletBalance |-> Balance(req.userId)])
    /\ UNCHANGED <<inputs, locals, splits, bills, splitCosts, wallets, walletLedger,
                   payments, credited, baseFeeEnv, splitCount, slugCount,
                   publicRequest, response>>

\* Math.max(0, totalCost - walletBalance)
RemainingCost(req) ==
    IF req.totalCost - req.walletBalance > 0 THEN req.totalCost - req.walletBalance ELSE 0

\* remainingCost === 0 && totalCost > 0
SettlesWithWallet(req) == RemainingCost(req) = 0 /\ req.totalCost > 0

\* the wallet path, first statement: WalletService.addEntry runs and commits
\* its own transaction on db, not on the tx of the enclosing transaction;
\* when it throws the request answers 500
PayWalletCharge(slot) ==
    /\ requests[slot].pc = "paySettle"
    /\ SettlesWithWallet(requests[slot])
    /\ LET req == requests[slot]
           entry == AddEntry(req.userId, "CHARGE", req.totalCost, "PAYMENT", req.id)
       IN  /\ wallets' = entry.wallets
           /\ walletLedger' = entry.walletLedger
           /\ Continues(slot, IF entry.ok
                                THEN [pc |-> "payCharged", userId |-> req.userId,
                                      id |-> req.id]
                                ELSE Idle)
    /\ UNCHANGED <<inputs, locals, splits, bills, splitCosts, payments, credited,
                   baseFeeEnv, splitCount, slugCount, publicRequest, response>>

\* the unique index on splits.public_slug rejects a slug another split holds
SlugTaken(id, slug) == \E other \in DOMAIN splits \ {id} : splits[other].publicSlug = slug

\* update(splits).set({status: "PAID", publicSlug}).where(eq(splits.id, id)):
\* no row when the split is gone, an error when the slug is taken
SplitsAfterMarkPaid(id, slug) ==
    IF id \in DOMAIN splits /\ ~SlugTaken(id, slug)
    THEN [splits EXCEPT ![id].status = "PAID", ![id].publicSlug = slug]
    ELSE splits

\* the wallet path, second statement: the split is marked PAID in the
\* enclosing transaction, which holds this statement alone; when it throws,
\* the transaction rolls back and the request answers 500
PayWalletMarkPaid(slot, slug) ==
    /\ requests[slot].pc = "payCharged"
    /\ splits' = SplitsAfterMarkPaid(requests[slot].id, slug)
    /\ Ends(slot)
    /\ UNCHANGED <<inputs, locals, bills, splitCosts, wallets, walletLedger,
                   payments, credited, baseFeeEnv, splitCount, slugCount,
                   publicRequest, response>>

\* the free path: totalCost is 0 and the split is marked PAID
PayFree(slot, slug) ==
    /\ requests[slot].pc = "paySettle"
    /\ ~SettlesWithWallet(requests[slot])
    /\ requests[slot].totalCost = 0
    /\ splits' = SplitsAfterMarkPaid(requests[slot].id, slug)
    /\ Ends(slot)
    /\ UNCHANGED <<inputs, locals, bills, splitCosts, wallets, walletLedger,
                   payments, credited, baseFeeEnv, splitCount, slugCount,
                   publicRequest, response>>

\* the PIX path: the provider creates the charge and a PENDING payment is
\* stored; a provider error, or a split deleted meanwhile (foreign key),
\* answers 500 and stores nothing
PayPix(slot, providerFails) ==
    /\ requests[slot].pc = "paySettle"
    /\ ~SettlesWithWallet(requests[slot])
    /\ requests[slot].totalCost # 0
    /\ LET req == requests[slot]
           chargeAmount == RemainingCost(req) + req.topupCents
       IN  payments' =
               IF chargeAmount > 0 /\ ~providerFails /\ req.id \in DOMAIN splits
                  /\ Len(payments) < MaxPayments
               THEN Append(payments,
                           [ownerClerkUserId |-> req.userId,
                            splitId |-> req.id,
                            status |-> "PENDING",
                            amountCentsTotal |-> chargeAmount,
                            amountCentsSplitCost |-> RemainingCost(req),
                            amountCentsTopup |-> req.topupCents,
                            providerPaymentId |-> Len(payments) + 1])
               ELSE payments
    /\ Ends(slot)
    /\ UNCHANGED <<inputs, locals, splits, bills, splitCosts, wallets, walletLedger,
                   credited, baseFeeEnv, splitCount, slugCount, publicRequest, response>>

\* POST /webhooks/mercadopago up to the transaction: the provider reports
\* the payment as credited, the payment is stored and not APPROVED
WebhookRead(slot, paymentId) ==
    /\ paymentId \in credited
    /\ paymentId \in DOMAIN payments
    /\ payments[paymentId].status # "APPROVED"
    /\ Begins(slot, [pc |-> "webhook", paymentId |-> paymentId,
                     storedPayment |-> payments[paymentId]])
    /\ UNCHANGED <<inputs, locals, splits, bills, splitCosts, wallets, walletLedger,
                   payments, credited, baseFeeEnv, splitCount, slugCount,
                   publicRequest, response>>

\* the transaction of the webhook: the payment becomes APPROVED, the split
\* is read and, when it is there and not PAID, the wallet gets the TOPUP and
\* the CHARGE and the split becomes PAID.  A negative final balance or a
\* taken slug throws and the transaction rolls back.
WebhookTransaction(slot, slug) ==
    /\ requests[slot].pc = "webhook"
    /\ LET storedPayment == requests[slot].storedPayment
           paymentId == requests[slot].paymentId
           splitId == storedPayment.splitId
           owner == storedPayment.ownerClerkUserId
           totalPaid == storedPayment.amountCentsTotal
           afterTopup == Balance(owner) + totalPaid
           cost == IF splitId \in DOMAIN splitCosts THEN splitCosts[splitId].totalCents ELSE 0
           finalBalance == FinalBalance(afterTopup, cost)
       IN  IF SettlesSplit(splitId)
           THEN IF finalBalance < 0 \/ SlugTaken(splitId, slug)
                THEN UNCHANGED <<payments, walletLedger, wallets, splits>>
                ELSE /\ payments' = [payments EXCEPT ![paymentId].status = "APPROVED"]
                     /\ walletLedger' = walletLedger \o
                            <<[ownerClerkUserId |-> owner, type |-> "TOPUP",
                               amountCents |-> totalPaid,
                               refType |-> "PAYMENT", refId |-> paymentId],
                              [ownerClerkUserId |-> owner, type |-> "CHARGE",
                               amountCents |-> cost,
                               refType |-> "SPLIT_FEE", refId |-> splitId]>>
                     /\ wallets' = Put(wallets, owner, finalBalance)
                     /\ splits' = SplitsAfterMarkPaid(splitId, slug)
           ELSE /\ payments' = [payments EXCEPT ![paymentId].status = "APPROVED"]
                /\ UNCHANGED <<walletLedger, wallets, splits>>
    /\ Ends(slot)
    /\ UNCHANGED <<inputs, locals, bills, splitCosts, credited, baseFeeEnv,
                   splitCount, slugCount, publicRequest, response>>

\* WalletService.addEntry called on its own, outside the routes; it refers
\* to no split
CallAddEntry(userId, type, amountCents) ==
    /\ Len(walletLedger) < MaxServiceEntries
    /\ LET entry == AddEntry(userId, type, amountCents, "PAYMENT", Null)
       IN  /\ wallets' = entry.wallets
           /\ walletLedger' = entry.walletLedger
    /\ UNCHANGED <<inputs, locals, requests, requestCount, splits, bills, splitCosts,
                   payments, credited, baseFeeEnv, splitCount, slugCount,
                   publicRequest, response>>

RacesNext ==
    \/ \E userId \in RaceUsers, type \in {"TOPUP", "CHARGE"},
          amountCents \in 0..MaxTopupCents : CallAddEntry(userId, type, amountCents)
    \/ \E userId \in RaceUsers : CreateSplit(userId)
    \/ \E userId \in RaceUsers, id \in SplitIds : DeleteSplit(userId, id)
    \/ \E userId \in RaceUsers, id \in SplitIds : ComputeReview(userId, id)
    \/ \E slot \in Slots, userId \in RaceUsers, kind \in PutKinds, id \in SplitIds :
           PutRead(slot, userId, kind, id)
    \/ \E slot \in Slots : PutWrite(slot)
    \/ \E slot \in Slots, userId \in RaceUsers, id \in SplitIds,
          topupCents \in 0..MaxTopupCents, payWithWallet \in BOOLEAN :
           PayRead(slot, userId, id, topupCents, payWithWallet)
    \/ \E slot \in Slots : PayGetBalance(slot)
    \/ \E slot \in Slots : PayWalletCharge(slot)
    \/ \E slot \in Slots, slug \in Slugs : PayWalletMarkPaid(slot, slug)
    \/ \E slot \in Slots, slug \in Slugs : PayFree(slot, slug)
    \/ \E slot \in Slots, providerFails \in BOOLEAN : PayPix(slot, providerFails)
    \/ \E paymentId \in 1..MaxPayments : CustomerPaysPix(paymentId)
    \/ \E slot \in Slots, paymentId \in 1..MaxPayments : WebhookRead(slot, paymentId)
    \/ \E slot \in Slots, slug \in Slugs : WebhookTransaction(slot, slug)

RacesSpec == RacesInit /\ [][RacesNext]_vars

\* ==================================================================== claims
Terminal == pc \in {"returned", "thrown"}
Returned == outcome.kind = "result"

\* the totals a caller can compare between two calls
Totals(r) ==
    IF r.kind = "result"
    THEN [kind |-> "result",
          participantTotals |-> r.participantTotals,
          itemsTotalCents |-> r.itemsTotalCents,
          extrasTotalCents |-> r.extrasTotalCents,
          grandTotalCents |-> r.grandTotalCents]
    ELSE r

Reorderings(s) ==
    {[i \in DOMAIN s |-> s[f[i]]] :
        f \in {g \in [DOMAIN s -> DOMAIN s] : \A i, j \in DOMAIN s : g[i] = g[j] => i = j}}

\* C1: every returned result has sum(participantTotals) = itemsTotalCents +
\* extrasTotalCents = grandTotalCents.
C1_SumReconciles ==
    Returned =>
        /\ SumFn(outcome.participantTotals)
              = outcome.itemsTotalCents + outcome.extrasTotalCents
        /\ outcome.grandTotalCents = outcome.itemsTotalCents + outcome.extrasTotalCents

C1_Witness ==
    /\ Returned
    /\ Len(participantsList) = 2
    /\ outcome.itemsTotalCents > 0
    /\ outcome.extrasTotalCents > 0
    /\ \A id \in DOMAIN outcome.participantTotals : outcome.participantTotals[id] > 0

NoRepeatedShare == \A i, j \in DOMAIN shares : shares[i] = shares[j] => i = j

\* C2: on valid input (unique participant ids, non-negative amounts, any
\* shares and extras) the call never ends with the "Invariant failed" error.
\* Stated for the bills with at least one participant and no repeated share,
\* which are among the inputs the claim covers.
C2_NoInvariantFailure ==
    (Len(participantsList) > 0 /\ NoRepeatedShare) => outcome.kind # "invariant"

\* C3: for every item with at least one valid consumer, the cents added to
\* the consumers for that item sum to the item's amountCents.
C3_ItemSumExact ==
    last.kind = "item" => SumFn(last.alloc) = last.amount

\* C4: for every extra with a positive computed amount, the cents added to
\* the participants for that extra sum to the computed amount.  Stated for
\* the bills with at least one participant and no repeated share, which are
\* among the inputs the claim covers.
C4_ExtraSumExact ==
    (/\ Len(participantsList) > 0
     /\ NoRepeatedShare
     /\ last.kind = "extra"
     /\ last.amount > 0) => SumFn(last.alloc) = last.amount

Orphans ==
    {k \in DOMAIN itemsList :
        ~\E i \in DOMAIN shares :
            /\ shares[i].itemId = itemsList[k].id
            /\ shares[i].participantId \in IdsOf(participantsList)}

FirstOrphan == CHOOSE k \in Orphans : \A j \in Orphans : k <= j

\* C6 (as claimed): whenever an item is orphaned the call fails with the
\* orphaned-item error naming that item.
C6_EveryOrphanNamed ==
    Terminal =>
        \A k \in Orphans :
            outcome.kind = "orphan" /\ outcome.itemName = itemsList[k].name

\* C6 (amended): whenever some item is orphaned the call fails with the
\* orphaned-item error naming the first orphaned item of itemsList, and
\* returns no result.
C6_FirstOrphanNamed ==
    (Terminal /\ Orphans # {}) =>
        outcome.kind = "orphan" /\ outcome.itemName = itemsList[FirstOrphan].name

C6_Witness ==
    /\ Terminal
    /\ Orphans = {2}
    /\ itemsList[2].amountCents > 0
    /\ Len(extrasList) > 0
    /\ outcome.kind = "orphan"
    /\ outcome.itemName = itemsList[2].name

\* the cents the participants get from the extra alone: the allocation of the
\* bill with that single extra minus the allocation of the bill without extras
SoloAllocation(extra) ==
    LET with == Allocate(participantsList, itemsList, shares, <<extra>>)
        without == Allocate(participantsList, itemsList, shares, <<>>)
    IN  Delta(with.acc.participantTotals, without.acc.participantTotals)

\* C7: the cents a PROPORTIONAL extra gives each participant are the same
\* whatever other extras stand before it in the list: they equal what the
\* extra allocates when it is the only extra of the bill.
C7_BaseIsolation ==
    (last.kind = "extra" /\ last.mode = "PROPORTIONAL" /\ last.amount > 0 /\ pc # "thrown")
        => last.alloc = SoloAllocation(extrasList[last.index])

C7_Witness ==
    /\ last.kind = "extra"
    /\ last.index = 2
    /\ last.mode = "PROPORTIONAL"
    /\ last.amount > 0
    /\ SumFn(last.alloc) > 0
    /\ extrasList[1].allocationMode = "EQUAL"
    /\ ExtraAmount(extrasList[1], itemsTotalCents) > 0
    /\ \E id \in DOMAIN itemsOnlyTotals : itemsOnlyTotals[id] = 0

KnownShares ==
    SelectSeq(shares, LAMBDA sh : sh.participantId \in IdsOf(participantsList))

\* C8: the call ends as the call on the input without the shares that name
\* unknown participants ends (same result or same error).
C8_UnknownSharesDropped ==
    Terminal =>
        outcome = calculateSplit(participantsList, itemsList, KnownShares,
                                 extrasList, baseFeeCents, aiCents)

C8_Witness ==
    /\ Returned
    /\ KnownShares # shares
    /\ outcome.itemsTotalCents > 0
    /\ \E i \in DOMAIN shares :
          /\ shares[i].participantId \notin IdsOf(participantsList)
          /\ shares[i].itemId \in 1..Len(itemsList)

C10_OrderIrrelevant ==
    Terminal =>
        \A ps \in Reorderings(participantsList), sh \in Reorderings(shares) :
            Totals(calculateSplit(ps, itemsList, sh, extrasList, baseFeeCents, aiCents))
                = Totals(outcome)

C10_Witness ==
    /\ Returned
    /\ Len(participantsList) = 2
    /\ participantsList[1].sortOrder = participantsList[2].sortOrder
    /\ Len(shares) >= 2
    /\ \E id \in DOMAIN outcome.participantTotals :
          outcome.participantTotals[id] # outcome.participantTotals[3 - id]

\* C11: platform fees are never allocated: the call on the same bill with any
\* other baseFeeCents and aiCents gives the same participantTotals,
\* itemsTotalCents, extrasTotalCents and grandTotalCents, and a returned
\* result carries baseFeeCents and aiCents as they were passed.
C11_FeesNotAllocated ==
    Terminal =>
        /\ \A fee \in 0..MaxFeeCents, ai \in 0..MaxFeeCents :
              Totals(calculateSplit(participantsList, itemsList, shares, extrasList, fee, ai))
                  = Totals(outcome)
        /\ Returned =>
              outcome.baseFeeCents = baseFeeCents /\ outcome.aiCents = aiCents

C11_Witness ==
    /\ Returned
    /\ baseFeeCents > 0
    /\ aiCents > 0
    /\ outcome.itemsTotalCents > 0
    /\ outcome.extrasTotalCents > 0

\* the participants of the list that some share of itemsList[k] names
ConsumerSet(k) ==
    {shares[i].participantId : i \in {j \in DOMAIN shares : shares[j].itemId = itemsList[k].id}}
        \cap IdsOf(participantsList)

\* (total, sortOrder, id) of a precedes (total, sortOrder, id) of b
PrecedesByTotal(totals, a, b) ==
    LET pm == participantMapOf(participantsList)
    IN  \/ totals[a] < totals[b]
        \/ /\ totals[a] = totals[b]
           /\ \/ pm[a].sortOrder < pm[b].sortOrder
              \/ pm[a].sortOrder = pm[b].sortOrder /\ a < b

\* C13: the item just processed, with n valid consumers, gave each of them
\* floor(amountCents / n), one more cent to exactly (amountCents mod n) of
\* them, namely those with the lowest item-only total before the item, ties
\* by (sortOrder, id), and nothing to anybody else.
C13_ItemAllocationRule ==
    last.kind = "item" =>
        LET cons == ConsumerSet(last.index)
            n == Cardinality(cons)
            base == last.amount \div n
            remainder == last.amount % n
            before == Delta(itemsOnlyTotals, last.alloc)
            recipients == {c \in cons : last.alloc[c] = base + 1}
        IN  /\ \A c \in cons : last.alloc[c] \in {base, base + 1}
            /\ \A c \in DOMAIN last.alloc \ cons : last.alloc[c] = 0
            /\ Cardinality(recipients) = remainder
            /\ \A r \in recipients, c \in cons \ recipients : PrecedesByTotal(before, r, c)

\* every item of the bill has the same, non-empty, set of consumers
SameConsumers ==
    /\ Len(itemsList) > 0
    /\ ConsumerSet(1) # {}
    /\ \A k \in DOMAIN itemsList : ConsumerSet(k) = ConsumerSet(1)

\* C14: when every item is consumed by the same set of participants, then
\* after every prefix of the item loop the item-only totals of any two of
\* those consumers differ by at most one cent.
C14_BalancedRotation ==
    SameConsumers =>
        \A a, b \in ConsumerSet(1) : Abs(itemsOnlyTotals[a] - itemsOnlyTotals[b]) <= 1

\* the sum of the amounts of all items of the bill
AllItemsCents == SumFn([k \in DOMAIN itemsList |-> itemsList[k].amountCents])

\* C15: the amount of the SERVICE_PERCENT extra just processed is
\* floor(total of all items * valuePercentBp / 10000), a missing rate counting
\* as 0, wherever the extra stands in the list and whatever the other extras.
C15_ServicePercentAmount ==
    (last.kind = "extra" /\ extrasList[last.index].type = "SERVICE_PERCENT") =>
        LET bp == extrasList[last.index].valuePercentBp
            rate == IF bp = Null THEN 0 ELSE bp
        IN  last.amount = (AllItemsCents * rate) \div 10000

C15_Witness ==
    /\ last.kind = "extra"
    /\ last.index = 2
    /\ extrasList[2].type = "SERVICE_PERCENT"
    /\ extrasList[2].valuePercentBp = 5000
    /\ extrasList[1].type = "FIXED"
    /\ extrasList[1].valueCents = 1
    /\ AllItemsCents = 1
    /\ last.amount = 0
    /\ extrasTotalCents = 1

\* the place of participant p in (sortOrder, id) ascending order, from 1
PlaceInOrder(p) ==
    LET pm == participantMapOf(participantsList)
    IN  1 + Cardinality({q \in DOMAIN pm :
                            \/ pm[q].sortOrder < pm[p].sortOrder
                            \/ pm[q].sortOrder = pm[p].sortOrder /\ q < p})

\* C16: the EQUAL extra just processed, of positive amount A on a bill of n
\* participants, gave every participant floor(A / n) cents plus one cent to
\* the first (A mod n) participants in (sortOrder, id) order, whether or not
\* they consume an item and whatever their running totals.
C16_EqualExtraRule ==
    (last.kind = "extra" /\ last.mode = "EQUAL" /\ last.amount > 0
        /\ Len(participantsList) > 0) =>
        LET n == Len(participantsList)
        IN  \A p \in IdsOf(participantsList) :
                last.alloc[p] = (last.amount \div n)
                                    + (IF PlaceInOrder(p) <= last.amount % n THEN 1 ELSE 0)

C16_Witness ==
    /\ last.kind = "extra"
    /\ last.mode = "EQUAL"
    /\ last.amount = 1
    /\ Len(participantsList) = 2
    /\ \E r, o \in IdsOf(participantsList) :
          /\ last.alloc[r] = 1
          /\ last.alloc[o] = 0
          /\ itemsOnlyTotals[o] = 0
          /\ participantTotals[r] - 1 > participantTotals[o]
          /\ participantsList[1].id = o

\* floor and numerator of the fractional part of A * c / T for participant p,
\* c being the item-only total of p and T the total of all items
FloorShare(A, p) == (A * itemsOnlyTotals[p]) \div AllItemsCents
FractionNumerator(A, p) == (A * itemsOnlyTotals[p]) % AllItemsCents

\* the place of p when ordered by fractional part descending, then
\* (sortOrder, id) ascending, from 1
PlaceByFraction(A, p) ==
    LET pm == participantMapOf(participantsList)
    IN  1 + Cardinality({q \in DOMAIN pm :
                \/ FractionNumerator(A, q) > FractionNumerator(A, p)
                \/ /\ FractionNumerator(A, q) = FractionNumerator(A, p)
                   /\ \/ pm[q].sortOrder < pm[p].sortOrder
                      \/ pm[q].sortOrder = pm[p].sortOrder /\ q < p})

ProportionalCase ==
    /\ last.kind = "extra"
    /\ last.mode = "PROPORTIONAL"
    /\ last.amount > 0
    /\ AllItemsCents > 0

Leftover ==
    last.amount - SumFn([p \in IdsOf(participantsList) |-> FloorShare(last.amount, p)])

\* C17: the PROPORTIONAL extra just processed, of positive amount A on a bill
\* with items total T > 0, gave each participant floor(A * c / T) cents and
\* one more cent to each of the first (A - sum of floors) participants by
\* fractional part descending, then (sortOrder, id) ascending; so nobody got
\* more than floor + 1.
C17_LargestRemainderRule ==
    ProportionalCase =>
        \A p \in IdsOf(participantsList) :
            last.alloc[p] = FloorShare(last.amount, p)
                                + (IF PlaceByFraction(last.amount, p) <= Leftover THEN 1 ELSE 0)

C17_Witness ==
    /\ ProportionalCase
    /\ Leftover = 1
    /\ \E r, o \in IdsOf(participantsList) :
          /\ last.alloc[r] = FloorShare(last.amount, r) + 1
          /\ last.alloc[o] = FloorShare(last.amount, o)
          /\ FractionNumerator(last.amount, o) > 0
          /\ PlaceInOrder(o) < PlaceInOrder(r)

\* C18: in every PROPORTIONAL distribution the leftover (the extra's amount
\* minus the sum of the floor shares) is at least 0 and less than the number
\* of participants, and the loop over the leftover cents never reads past
\* the end of the candidate list.
C18_LeftoverBounded ==
    /\ ProportionalCase => (0 <= Leftover /\ Leftover < Len(participantsList))
    /\ outcome.kind # "typeError"

\* C19: a participant whose item-only total is zero receives no cent, floor
\* share or leftover, from any PROPORTIONAL extra, whatever earlier EQUAL
\* extras added to the participant's running total.
C19_NoConsumptionNoShare ==
    (last.kind = "extra" /\ last.mode = "PROPORTIONAL") =>
        \A p \in IdsOf(participantsList) : itemsOnlyTotals[p] = 0 => last.alloc[p] = 0

C19_Witness ==
    /\ ProportionalCase
    /\ last.index = 2
    /\ extrasList[1].allocationMode = "EQUAL"
    /\ Leftover = 1
    /\ \E p, q \in IdsOf(participantsList) :
          /\ itemsOnlyTotals[p] = 0
          /\ participantTotals[p] > 0
          /\ last.alloc[p] = 0
          /\ last.alloc[q] = 1
          /\ PlaceInOrder(p) < PlaceInOrder(q)

\* C20: for the PROPORTIONAL extra just processed and any two participants,
\* the one with the strictly greater item-only total received at least as
\* many cents of the extra as the other.
C20_ProportionalMonotone ==
    (last.kind = "extra" /\ last.mode = "PROPORTIONAL") =>
        \A a, b \in IdsOf(participantsList) :
            itemsOnlyTotals[a] > itemsOnlyTotals[b] => last.alloc[a] >= last.alloc[b]

C20_Witness ==
    /\ ProportionalCase
    /\ \E a, b \in IdsOf(participantsList) :
          /\ itemsOnlyTotals[a] > itemsOnlyTotals[b]
          /\ itemsOnlyTotals[b] > 0
          /\ FloorShare(last.amount, a) = FloorShare(last.amount, b)
          /\ last.alloc[a] = last.alloc[b] + 1
          /\ PlaceInOrder(b) < PlaceInOrder(a)

\* the splits that are PAID and carry the slug
PaidWithSlug(slug) ==
    {id \in DOMAIN splits : splits[id].status = "PAID" /\ splits[id].publicSlug = slug}

\* C12: GET /public/:slug answers 404 without split data when no PAID split
\* has the slug (unknown slug, or a split that is not PAID), goes on only
\* with a PAID split of that slug, and a 200 response carries the totals of
\* the split found, which was PAID when it was read; in every reachable
\* state of the routes.
C12_PublicOnlyPaid ==
    /\ [](publicRequest.pc = "found" =>
            /\ publicRequest.split.status = "PAID"
            /\ publicRequest.split.publicSlug = publicRequest.slug)
    /\ [][\A slug \in RequestSlugs :
            GetPublicFind(slug) =>
                IF PaidWithSlug(slug) = {}
                THEN /\ response'.status = 404
                     /\ DOMAIN response' = {"status", "error"}
                     /\ publicRequest' = Idle
                ELSE /\ publicRequest'.pc = "found"
                     /\ publicRequest'.id \in PaidWithSlug(slug)]_vars
    /\ [][GetPublicRespond =>
            /\ response'.status \in {200, 500}
            /\ response'.slug = publicRequest.slug
            /\ response'.status = 200 => response'.split = publicRequest.id
            /\ response'.status = 500 => DOMAIN response' = {"status", "slug"}]_vars
    /\ [](response.status = 200 =>
            \/ response.split \notin DOMAIN splits
            \/ /\ splits[response.split].status = "PAID"
               /\ splits[response.split].publicSlug = response.slug)

C12_Witness ==
    /\ response.status = 200
    /\ response.grandTotal > 0
    /\ response.split \in DOMAIN splits
    /\ \E id \in DOMAIN splits :
          /\ splits[id].status = "DRAFT"
          /\ bills[id].items # <<>>
          /\ id \in DOMAIN splitCosts

\* the sum of the fractions raw[p], p in S, as one unreduced fraction
RECURSIVE RawSum(_, _)
RawSum(raw, S) ==
    IF S = {} THEN [num |-> 0, den |-> 1]
    ELSE LET p == CHOOSE q \in S : TRUE
             rest == RawSum(raw, S \ {p})
         IN  [num |-> raw[p].num * rest.den + rest.num * raw[p].den,
              den |-> raw[p].den * rest.den]

IntegerTotals == <<participantTotals, itemsOnlyTotals, itemsTotalCents, extrasTotalCents>>

\* C21: on every returned call the exact rational totals of the participants
\* sum to grandTotalCents exactly, and the exact pass over the PROPORTIONAL
\* extras changes no integer total.
C21_RawTotalsReconcile ==
    /\ [](Returned =>
            LET sum == RawSum(participantTotalsRawCents, DOMAIN participantTotalsRawCents)
            IN  /\ sum.den > 0
                /\ sum.num = outcome.grandTotalCents * sum.den)
    /\ [][RawProportionalPass => UNCHANGED IntegerTotals]_vars
    /\ [](Returned => /\ outcome.participantTotals = participantTotals
                      /\ outcome.itemsTotalCents = itemsTotalCents
                      /\ outcome.extrasTotalCents = extrasTotalCents)

C21_Witness ==
    /\ Returned
    /\ \E p \in DOMAIN participantTotalsRawCents : participantTotalsRawCents[p].den > 1
    /\ \E k \in DOMAIN extrasList :
          /\ extrasList[k].allocationMode = "PROPORTIONAL"
          /\ ExtraAmount(extrasList[k], itemsTotalCents) > 0

\* the number a string of decimal digits writes
RECURSIVE DigitsValue(_)
DigitsValue(digits) ==
    IF digits = <<>> THEN 0
    ELSE DigitsValue(SubSeq(digits, 1, Len(digits) - 1)) * 10 + digits[Len(digits)]

\* six decimal places
Million == 10 ^ 6

\* C22: for each participant of a returned call the exact-value string writes
\* the exact total in reais (exact cents / 100) with exactly 6 digits after
\* the comma, truncated and never rounded, and carries the continuation
\* marker exactly when the exact value has a non-zero remainder after them.
C22_ExactValueString ==
    Returned =>
        /\ DOMAIN outcome.participantTotalsRaw = IdsOf(participantsList)
        /\ \A p \in DOMAIN outcome.participantTotalsRaw :
              LET str == outcome.participantTotalsRaw[p]
                  cents == participantTotalsRawCents[p]
              IN  /\ cents.num >= 0 /\ cents.den > 0
                  /\ Len(str.fracDigits) = 6
                  /\ \A i \in DOMAIN str.fracDigits : str.fracDigits[i] \in 0..9
                  /\ str.integerPart * Million + DigitsValue(str.fracDigits)
                        = (cents.num * Million) \div (cents.den * 100)
                  /\ str.hasMore <=> (cents.num * Million) % (cents.den * 100) # 0

C22_Witness ==
    /\ Returned
    /\ \E p \in DOMAIN outcome.participantTotalsRaw :
          /\ outcome.participantTotalsRaw[p].hasMore
          /\ DigitsValue(outcome.participantTotalsRaw[p].fracDigits) > 0
    /\ \E p \in DOMAIN outcome.participantTotalsRaw :
          /\ ~outcome.participantTotalsRaw[p].hasMore
          /\ DigitsValue(outcome.participantTotalsRaw[p].fracDigits) > 0

\* C23: once a split is PAID its participants, items, shares and extras never
\* change again while the split exists, also when a PUT request's status
\* check has run before the payment and its transaction after it; so the
\* breakdown GET /public/:slug recomputes stays the same.
C23_PaidSplitFrozen ==
    [][\A id \in DOMAIN splits :
          splits[id].status = "PAID" /\ id \in DOMAIN bills' => bills'[id] = bills[id]]_vars

\* C24: a split starts DRAFT without slug; every step that makes it PAID
\* gives it a public slug in the same step; and a PAID split stays PAID and
\* keeps its slug through every step, as long as it exists.
C24_StatusMonotonic ==
    [][\A id \in DOMAIN splits' :
          IF id \notin DOMAIN splits
          THEN splits'[id].status = "DRAFT" /\ splits'[id].publicSlug = Null
          ELSE IF splits[id].status = "PAID"
          THEN splits'[id].status = "PAID" /\ splits'[id].publicSlug = splits[id].publicSlug
          ELSE splits'[id].status = "PAID" => splits'[id].publicSlug # Null]_vars

RECURSIVE LedgerSum(_, _)
LedgerSum(userId, k) ==
    IF k = 0 THEN 0
    ELSE LedgerSum(userId, k - 1)
         + (IF walletLedger[k].ownerClerkUserId # userId THEN 0
            ELSE IF walletLedger[k].type = "TOPUP" THEN walletLedger[k].amountCents
            ELSE 0 - walletLedger[k].amountCents)

LedgerOwners == {walletLedger[k].ownerClerkUserId : k \in DOMAIN walletLedger}

\* C26: in every reachable state the balance of each wallet is the sum of its
\* TOPUP entries minus the sum of its CHARGE entries, whether addEntry or
\* the webhook transaction wrote them; and every ledger entry has a wallet.
C26_LedgerConsistent ==
    /\ LedgerOwners \subseteq DOMAIN wallets
    /\ \A userId \in DOMAIN wallets :
          wallets[userId] = LedgerSum(userId, Len(walletLedger))

\* a wallet with entries of both writers: the webhook's TOPUP and CHARGE and
\* a CHARGE of the wallet path of POST /pay
C26_Witness ==
    /\ \E k \in DOMAIN walletLedger :
          walletLedger[k].refType = "SPLIT_FEE" /\ walletLedger[k].amountCents > 0
    /\ \E k \in DOMAIN walletLedger :
          /\ walletLedger[k].type = "CHARGE"
          /\ walletLedger[k].refType = "PAYMENT"
          /\ walletLedger[k].refId # Null
    /\ \A slot \in Slots : requests[slot] = Idle

\* the ledger entries the webhook wrote for a payment, and for a split
TopupsOf(paymentId) ==
    {k \in DOMAIN walletLedger :
        /\ walletLedger[k].type = "TOPUP"
        /\ walletLedger[k].refType = "PAYMENT"
        /\ walletLedger[k].refId = paymentId}

SplitFeesOf(splitId) ==
    {k \in DOMAIN walletLedger :
        walletLedger[k].refType = "SPLIT_FEE" /\ walletLedger[k].refId = splitId}

\* C27: however often the notification of an approved payment is delivered,
\* one after the other or overlapping, the ledger holds at most one TOPUP of
\* that payment and at most one SPLIT_FEE charge of its split, and a
\* delivery that runs after the payment was credited changes neither ledger
\* nor wallet nor split.
C27_WebhookIdempotent ==
    /\ [](\A paymentId \in DOMAIN payments : Cardinality(TopupsOf(paymentId)) <= 1)
    /\ [](\A splitId \in SplitIds : Cardinality(SplitFeesOf(splitId)) <= 1)
    /\ [][\A slot \in Slots :
            /\ requests[slot].pc = "webhook"
            /\ requests'[slot] = Idle
            /\ TopupsOf(requests[slot].paymentId) # {}
            => UNCHANGED <<walletLedger, wallets, splits>>]_vars

\* a second delivery passed its checks while the payment was PENDING and is
\* about to run its transaction after the first one credited the payment
C27_Witness ==
    \E slot \in Slots :
        /\ requests[slot].pc = "webhook"
        /\ payments[requests[slot].paymentId].status = "APPROVED"
        /\ TopupsOf(requests[slot].paymentId) # {}
        /\ \E splitId \in DOMAIN splits :
              splits[splitId].status = "PAID" /\ SplitFeesOf(splitId) # {}

\* C28: every stored payment that became APPROVED has been credited: the
\* ledger holds a TOPUP of the full amount paid for it, and its split is
\* PAID with a public slug.
C28_ApprovedIsCredited ==
    \A paymentId \in DOMAIN payments :
        payments[paymentId].status = "APPROVED" =>
            /\ \E k \in TopupsOf(paymentId) :
                  walletLedger[k].amountCents = payments[paymentId].amountCentsTotal
            /\ payments[paymentId].splitId \in DOMAIN splits
            /\ splits[payments[paymentId].splitId].status = "PAID"
            /\ splits[payments[paymentId].splitId].publicSlug # Null

\* the CHARGE entries written for a split: by the wallet path of POST /pay
\* (refType PAYMENT) and by the webhook (refType SPLIT_FEE)
ChargesOf(splitId) ==
    {k \in DOMAIN walletLedger :
        walletLedger[k].type = "CHARGE" /\ walletLedger[k].refId = splitId}

\* C29: whatever pay requests and webhook deliveries for a split overlap, the
\* ledger holds at most one CHARGE for that split.
C29_ChargedAtMostOnce ==
    \A splitId \in SplitIds : Cardinality(ChargesOf(splitId)) <= 1

\* a wallet payment of the split is between its two statements
PayBetweenStatements(splitId) ==
    \E slot \in Slots : requests[slot].pc = "payCharged" /\ requests[slot].id = splitId

\* C30: the CHARGE of a wallet payment and the PAID status of its split go
\* together: once the pay request is over, a split that is still DRAFT has
\* no CHARGE of a wallet payment in the ledger.
C30_WalletPaymentAtomic ==
    \A splitId \in DOMAIN splits :
        /\ splits[splitId].status = "DRAFT"
        /\ ~PayBetweenStatements(splitId)
        => \A k \in ChargesOf(splitId) : walletLedger[k].refType # "PAYMENT"

====
